---- MODULE Spec2Model ----
(***************************************************************************)
(* A model of proxyget: the Stopwatch/Timer gate (timers.py), the          *)
(* ProgressBar renderer and write_bytes (utils.py), time_diff_repr         *)
(* (timers.py), the streaming download get_file and the proxy keyword      *)
(* arguments make_kwargs with its password cache (proxyget.py).            *)
(*                                                                         *)
(* Time is the value time.time() returns, counted in quarter seconds; it   *)
(* never runs backwards.  Two readings of the clock inside one call may    *)
(* differ by up to MaxDrift ticks.                                         *)
(***************************************************************************)
EXTENDS Integers, Sequences, FiniteSets, TLC

VARIABLES
    now,        \* the value the next time.time() call returns
    timer,      \* a stand-alone timers.Timer object
    tLast,      \* the last call made on `timer` and what it returned
    tPrev,      \* the call made on `timer` before tLast
    pbar,       \* a utils.ProgressBar object (its fields, _timer and _cycle)
    sink,       \* what was written to the output sink (sys.stdout), in order
    bLast,      \* the last call made on `pbar` and what it did
    wbIn,       \* the arguments of a write_bytes call
    wbOut,      \* what the call returned or raised
    tdIn,       \* the arguments of the current time_diff_repr call
    tdOut,      \* what that call returned or raised
    tdPrev,     \* the arguments and the result of the call before it
    gf,         \* one get_file call: its arguments, locals, position, outcome
    kw,         \* the password cache of make_proxy_and_save and the calls of
                \* make_kwargs and clear_password_cache made so far
    gc          \* the calls of gitclone.main: arguments, position, outcome,
                \* and what they act on: the global git configuration, the
                \* working directory and the cloned repository

timerVars == <<timer, tLast, tPrev>>
barVars == <<pbar, sink, bLast>>
wbVars == <<wbIn, wbOut>>
tdVars == <<tdIn, tdOut, tdPrev>>
vars == <<now, timer, tLast, tPrev, pbar, sink, bLast, wbIn, wbOut,
          tdIn, tdOut, tdPrev, gf, kw, gc>>

\* ------------------------------------------------------------------ bounds
MaxClock == 7       \* the clock stops advancing here
MaxDrift == 1       \* clock ticks that may pass between two readings in one call
MaxRate  == 2       \* largest checktime / update_rate tried, in ticks
MaxCalls == 3       \* calls made on a stand-alone ProgressBar

\* --------------------------------------------------- timers.py: Stopwatch
\* Stopwatch.__init__ / Stopwatch.restart: _tic = time.time()
Stopwatch(t) == [_tic |-> t]

\* Stopwatch.toc: time.time() - self._tic, the clock being read at t
toc(sw, t) == t - sw._tic

\* ------------------------------------------------------- timers.py: Timer
\* Timer.__init__(checktime): the two clock readings are t1 <= t2
Timer(checktime, t1, t2) ==
    [_tic |-> t1, checktime |-> checktime, checker |-> Stopwatch(t2)]

\* Timer.restart: checker.restart() reads t1, super().restart() reads t2
Timer_restart(tm, t1, t2) ==
    [tm EXCEPT !.checker = Stopwatch(t1), !._tic = t2]

\* the comparison of Timer.check with >= in place of >
Timer_fires_geq(tm, t1) == toc(tm.checker, t1) >= tm.checktime

\* the comparison of Timer.check: self.checker.toc > self.checktime
Timer_fires(tm, t1) == toc(tm.checker, t1) > tm.checktime

\* Timer.check restarting the checker whatever the comparison gives
Timer_check_restart_always(tm, t1, t2) ==
    [timer |-> [tm EXCEPT !.checker = Stopwatch(t2)],
     ret |-> Timer_fires(tm, t1)]

\* Timer.check without the restart of the checker when it fires
Timer_check_no_restart(tm, t1, t2) ==
    [timer |-> tm, ret |-> Timer_fires(tm, t1)]

\* Timer.check: toc reads the clock at t1; when it fires, checker.restart()
\* reads it at t2.  The result is the pair (new timer, returned value).
Timer_check(tm, t1, t2) ==
    IF Timer_fires(tm, t1)
    THEN [timer |-> [tm EXCEPT !.checker = Stopwatch(t2)], ret |-> TRUE]
    ELSE [timer |-> tm, ret |-> FALSE]

\* the clock readings a call entered at `now` may see later in the call
Later(t) == {t2 \in t .. t + MaxDrift : t2 <= MaxClock}

\* time passes between two calls
Tick ==
    /\ now < MaxClock
    /\ now' = now + 1

NoCall == [op |-> "none", ret |-> FALSE, elapsed |-> 0, start |-> 0, end |-> 0,
           ref |-> 0]

\* --------------------------------------------------- utils.py: ProgressBar
\* n / d rounded to the nearest integer, ties to even: what the 'f' format
\* of a float does to the digit after the last one kept (n >= 0, d > 0)
RoundHalfEven(n, d) ==
    LET q == n \div d
        r == n % d
    IN  IF 2 * r < d THEN q
        ELSE IF 2 * r > d THEN q + 1
        ELSE IF q % 2 = 0 THEN q ELSE q + 1

Max(a, b) == IF a >= b THEN a ELSE b

\* the defaults of the dataclass fields; update_rate 0.5 s is 2 ticks
update_rate_default == 2
precision_default == 1
length_default == 80
\* len(progress_char) of the default: the literal holds three characters
progress_char_default_len == 3
empty_char_default_len == 1
\* itertools.cycle(r'\|/-'): four glyphs, _cycle is the index of the next one
cycle_len == 4

\* ProgressBar._assert_char(s): len(s) == 1; an assert statement is not
\* executed when the interpreter runs optimised (debug = FALSE)
assert_char(len, debug) == (~debug) \/ len = 1

\* ProgressBar.__post_init__: the two glyph checks (TRUE: no AssertionError)
post_init_ok(pcLen, ecLen, debug) ==
    assert_char(pcLen, debug) /\ assert_char(ecLen, debug)

\* ProgressBar(update_rate, length, progress_char) after __post_init__;
\* Timer(update_rate) reads the clock at t1 and t2
ProgressBar(rate, length, pcLen, t1, t2) ==
    [update_rate |-> rate, precision |-> precision_default, length |-> length,
     pcLen |-> pcLen, ecLen |-> empty_char_default_len,
     _timer |-> Timer(rate, t1, t2), _cycle |-> 0]

\* the methods class ProgressBar defines
ProgressBar_methods == {"__post_init__", "_assert_char", "print_init",
                        "print_progress"}

\* one write to the sink: a progress frame, a newline or a logged line
Frame(permille, filled, load, empty, cells, t) ==
    [kind |-> "frame", permille |-> permille, filled |-> filled,
     load |-> load, empty |-> empty, cells |-> cells, at |-> t]
Written(kind, t) ==
    [kind |-> kind, permille |-> 0, filled |-> 0, load |-> -1, empty |-> 0,
     cells |-> 0, at |-> t]

\* the gate of print_progress with the gate left out (every call renders)
gate_closed_never(pb, t1) == FALSE

\* the gate of print_progress with the test of check() inverted
gate_closed_inverted(pb, t1) ==
    pb._timer.checktime # 0 /\ Timer_check(pb._timer, t1, t1).ret

\* print_progress, line 106: checktime != 0 and not check()
gate_closed(pb, t1) ==
    pb._timer.checktime # 0 /\ ~Timer_check(pb._timer, t1, t1).ret

\* the spinner drawn from on every frame, full or not
advance_always(cycle, full) == (cycle + 1) % cycle_len

\* print_progress, line 116: next(self._cycle) if filled_length != self.length;
\* the phase after the frame
advance(cycle, full) == IF full THEN cycle ELSE (cycle + 1) % cycle_len

\* the line ended from 100% on: fraction >= 1
line_ends_geq(num, den) == num >= den

\* print_progress, line 123: fraction == 1 after the division by total, the
\* fraction being num / den
line_ends(num, den) == num = den

\* the empty glyphs with no cell kept for the spinner
right_fill_no_spinner_cell(length, filled) == Max(0, length - filled)

\* print_progress, line 115: the number of copies of empty_char in
\* empty_char * (length - filled_length - 1); a negative count gives ''
right_fill(length, filled) == Max(0, length - filled - 1)

\* ProgressBar.print_progress(fraction, total): the gate reads the clock at
\* t1 and, when the timer fires, restarts its checker at t2; the frame is
\* written at t2.  Gives the new bar, the new sink and the error raised.
print_progress(pb, snk, fraction, total, t1, t2) ==
    LET checked == IF pb._timer.checktime # 0
                   THEN Timer_check(pb._timer, t1, t2).timer
                   ELSE pb._timer
        at      == IF pb._timer.checktime # 0 THEN t2 ELSE t1
        num     == fraction
        den     == IF total # 1 THEN total ELSE 1
        filled_length == (num * pb.length) \div den
        full    == filled_length = pb.length
        right   == right_fill(pb.length, filled_length)
        load    == IF full THEN -1 ELSE pb._cycle
        frame   == Frame(RoundHalfEven(num * 1000, den), filled_length, load,
                         right,
                         pb.pcLen * filled_length
                           + (IF full THEN 0 ELSE 1) + pb.ecLen * right,
                         at)
    IN  IF gate_closed(pb, t1)
        THEN [pbar |-> pb, sink |-> snk, err |-> "none", end |-> t1]
        ELSE IF total = 0
        THEN [pbar |-> [pb EXCEPT !._timer = checked], sink |-> snk,
              err |-> "ZeroDivisionError", end |-> at]
        ELSE [pbar |-> [pb EXCEPT !._timer = checked,
                                  !._cycle = advance(@, full)],
              sink |-> IF line_ends(num, den)
                       THEN snk \o <<frame, Written("nl", at)>>
                       ELSE Append(snk, frame),
              err |-> "none", end |-> at]

\* ProgressBar.print_init: print_progress(0), then _timer.restart(), whose
\* clock readings are both t2
print_init(pb, snk, t1, t2) ==
    LET r == print_progress(pb, snk, 0, 1, t1, t2)
    IN  [pbar |-> [r.pbar EXCEPT !._timer = Timer_restart(@, t2, t2)],
         sink |-> r.sink, err |-> r.err, end |-> t2]

Frames(snk) == SelectSeq(snk, LAMBDA w : w.kind = "frame")

\* --------------------------------------------------- utils.py: write_bytes
\* A byte count is written in base 1024, least significant digit first, so
\* that counts up to 1024^NDigits fit; digit i weighs 1024^(i-1).
NDigits == 6
k == 1024

\* the count as a number, for counts that fit a machine integer
RECURSIVE DigitsValue(_)
DigitsValue(ds) ==
    IF ds = <<>> THEN 0 ELSE Head(ds) + k * DigitsValue(Tail(ds))

\* the digits of a non-negative number
RECURSIVE ToDigits(_, _)
ToDigits(n, len) ==
    IF len = 0 THEN <<>> ELSE <<n % k>> \o ToDigits(n \div k, len - 1)

\* the keys of d in insertion order: 0, k, k**2, k**3, k**4, each named by
\* its exponent (key number 0 is the number 0, not k**0)
d_keys == <<0, 1, 2, 3, 4>>
d_sym(key) == CASE key = 0 -> ""
                [] key = 1 -> "k"
                [] key = 2 -> "M"
                [] key = 3 -> "G"
                [] key = 4 -> "T"

\* key <= num, for a count num >= 0
KeyLeq(key, ds) == key = 0 \/ \E i \in key + 1 .. Len(ds) : ds[i] # 0

\* pairwise(d): the pairs of neighbouring keys
pairwise(keys) == [i \in 1 .. Len(keys) - 1 |-> <<keys[i], keys[i + 1]>>]

\* the for/else of write_bytes: key1 of the first pair with
\* key1 <= num < key2, else key2 of the last pair
select_key(ds) ==
    LET pairs == pairwise(d_keys)
        hits  == {i \in 1 .. Len(pairs) :
                     KeyLeq(pairs[i][1], ds) /\ ~KeyLeq(pairs[i][2], ds)}
    IN  IF hits # {}
        THEN pairs[CHOOSE i \in hits : \A j \in hits : i <= j][1]
        ELSE pairs[Len(pairs)][2]

\* num // k**key
RECURSIVE WholePart(_, _)
WholePart(ds, key) ==
    IF Len(ds) <= key THEN 0
    ELSE ds[key + 1] + k * WholePart(Tail(ds), key)

\* (num % k**key) * 100 as base-1024 digits, one digit longer than the input
RECURSIVE TimesHundred(_, _)
TimesHundred(ds, carry) ==
    IF ds = <<>> THEN <<carry>>
    ELSE LET v == Head(ds) * 100 + carry
         IN  <<v % k>> \o TimesHundred(Tail(ds), v \div k)

\* num / k**key to two decimals as the '.2f' format gives it: the whole part
\* and the hundredths, the exact quotient rounded to nearest, ties to even
Scaled(ds, key) ==
    LET frac  == SubSeq(ds, 1, key)
        prod  == TimesHundred(frac, 0)
        cents == prod[key + 1]
        rem   == SubSeq(prod, 1, key)
        up    == \/ rem[key] > k \div 2
                 \/ /\ rem[key] = k \div 2
                    /\ \/ \E i \in 1 .. key - 1 : rem[i] # 0
                       \/ cents % 2 = 1
        c2    == IF up THEN cents + 1 ELSE cents
    IN  IF c2 = 100 THEN [whole |-> WholePart(ds, key) + 1, cents |-> 0]
        ELSE [whole |-> WholePart(ds, key), cents |-> c2]

NoText == [err |-> "none", whole |-> 0, cents |-> 0, sym |-> "", key |-> 0]

\* write_bytes(num, '.2f', bits) for num = (-1 if neg) * digits
write_bytes(neg, ds, bits) ==
    LET key == select_key(ds)
        sym == IF ~bits THEN d_sym(key) \o "B" ELSE "b"
    IN  IF neg /\ \E i \in 1 .. Len(ds) : ds[i] # 0
        THEN [NoText EXCEPT !.err = "ValueError"]
        ELSE IF key = 0
        THEN [NoText EXCEPT !.err = "ZeroDivisionError"]
        ELSE [err |-> "none", whole |-> Scaled(ds, key).whole,
              cents |-> Scaled(ds, key).cents, sym |-> sym, key |-> key]

\* the digits tried: the ends and the middle of a digit's range
ByteDigits == {0, 1, k \div 2, k - 1}
\* the counts tried: the top digit is 0 or 1 (with six digits the counts stay
\* below 2^51, which a float holds exactly, so that num / key is exact)
ByteCounts ==
    {ds \in [1 .. NDigits -> ByteDigits] : ds[NDigits] \in {0, 1}}

\* ---------------------------------------------- timers.py: time_diff_repr
\* A number of seconds is a decimal m * 10^e with m >= 0 (and a sign).
Dec(m, e) == [m |-> m, e |-> e]

RECURSIVE Pow10(_)
Pow10(n) == IF n = 0 THEN 1 ELSE 10 * Pow10(n - 1)

RECURSIVE NumDigits(_)
NumDigits(m) == IF m < 10 THEN 1 ELSE 1 + NumDigits(m \div 10)

\* a >= b for two decimals
DecGeq(a, b) ==
    LET oa == NumDigits(a.m) + a.e
        ob == NumDigits(b.m) + b.e
        lo == IF a.e < b.e THEN a.e ELSE b.e
    IN  IF b.m = 0 THEN TRUE
        ELSE IF a.m = 0 THEN FALSE
        ELSE IF oa # ob THEN oa > ob
        ELSE a.m * Pow10(a.e - lo) >= b.m * Pow10(b.e - lo)

\* time_units, in the order of the table: key, name, symbol, conversion and
\* lower_limit (265 * 24 * 3600 = 22896000 for the year)
TimeUnit(key, name, symbol, conversion, lower_limit) ==
    [key |-> key, name |-> name, plural |-> name \o "s", symbol |-> symbol,
     conversion |-> conversion, lower_limit |-> lower_limit]
time_units == <<
    TimeUnit("ns", "nanosecond",  "ns",  Dec(1, -9),     Dec(1, -10)),
    TimeUnit("us", "microsecond", "us",  Dec(1, -6),     Dec(1, -7)),
    TimeUnit("ms", "millisecond", "ms",  Dec(1, -3),     Dec(1, -4)),
    TimeUnit("s",  "second",      "s",   Dec(1, 0),      Dec(1, -1)),
    TimeUnit("m",  "minute",      "min", Dec(6, 1),      Dec(12, 1)),
    TimeUnit("h",  "hour",        "hr",  Dec(36, 2),     Dec(72, 2)),
    TimeUnit("d",  "day",         "d",   Dec(864, 2),    Dec(1728, 2)),
    TimeUnit("y",  "year",        "yr",  Dec(315576, 2), Dec(22896, 3)) >>

\* the index in time_units of a key
UnitIndex(key) == CHOOSE i \in 1 .. Len(time_units) : time_units[i].key = key

\* the scan of time_diff_repr comparing diff > lower_limit
auto_unit_strict(diff) ==
    LET hits == {i \in 1 .. Len(time_units) :
                    ~DecGeq(time_units[i].lower_limit, diff)}
    IN  IF hits # {}
        THEN time_units[CHOOSE i \in hits : \A j \in hits : i >= j].key
        ELSE IF diff.m # 0 THEN "e" ELSE "ns"

\* lines 126-131: the scan of reversed(time_units.items()) for the first
\* unit with diff >= lower_limit; else 'e' if diff != 0.0 else 'ns'
auto_unit(diff) ==
    LET hits == {i \in 1 .. Len(time_units) :
                    DecGeq(diff, time_units[i].lower_limit)}
    IN  IF hits # {}
        THEN time_units[CHOOSE i \in hits : \A j \in hits : i >= j].key
        ELSE IF diff.m # 0 THEN "e" ELSE "ns"

\* seconds / conversion under the format '.1f': the value in tenths, rounded
fixed_tenths(diff, conv) ==
    LET p == diff.e + 1 - conv.e
    IN  IF diff.m = 0 THEN 0
        ELSE IF p >= 0 THEN RoundHalfEven(diff.m * Pow10(p), conv.m)
        ELSE RoundHalfEven(diff.m, conv.m * Pow10(-p))

\* seconds under the format '.1e': the mantissa in tenths and the exponent
sci_tenths(diff) ==
    LET n     == NumDigits(diff.m)
        t     == IF n <= 2 THEN diff.m * Pow10(2 - n)
                 ELSE RoundHalfEven(diff.m, Pow10(n - 2))
        order == diff.e + n - 1
    IN  IF diff.m = 0 THEN [tenths |-> 0, exp |-> 0]
        ELSE IF t = 100 THEN [tenths |-> 10, exp |-> order + 1]
        ELSE [tenths |-> t, exp |-> order]

\* TimeUnit.get_name never giving the plural
get_name_singular(u, diff) == u.name

\* TimeUnit.get_name: the name if value == 1 else the plural
get_name(u, diff) ==
    IF DecGeq(diff, u.conversion) /\ DecGeq(u.conversion, diff)
    THEN u.name ELSE u.plural

NoRepr == [err |-> "none", unit |-> "", fmt |-> "", tenths |-> 0, exp |-> 0,
           word |-> ""]

\* time_diff_repr(unix_start, unit=unit, long_form=long_form) with the
\* defaults unix_end = 0, sig = 1, pad = 0, sep = ''.  The result names the
\* unit chosen at line 125-134, the format, the number and the word after it.
time_diff_repr(unix_start, unit, long_form) ==
    LET diff  == Dec(unix_start.m, unix_start.e)   \* abs(0 - unix_start)
        valid == {"e"} \cup {time_units[i].key : i \in 1 .. Len(time_units)}
        chosen == IF unit = "None" THEN auto_unit(diff) ELSE unit
        fmt   == IF chosen = "e" THEN "e" ELSE "f"
        u     == time_units[UnitIndex(IF chosen = "e" THEN "s" ELSE chosen)]
    IN  IF unit # "None" /\ unit \notin valid
        THEN [NoRepr EXCEPT !.err = "ValueError"]
        ELSE [err |-> "none", unit |-> chosen, fmt |-> fmt,
              tenths |-> IF fmt = "e" THEN sci_tenths(diff).tenths
                         ELSE fixed_tenths(diff, u.conversion),
              exp |-> IF fmt = "e" THEN sci_tenths(diff).exp ELSE 0,
              word |-> IF long_form THEN get_name(u, diff) ELSE u.symbol]

\* ------------------------------------------------ proxyget.py: get_file
\* str.lower() of the header names used
Lower(name) == CASE name = "Content-Length" -> "content-length"
                 [] name = "CONTENT-LENGTH" -> "content-length"
                 [] name = "Content-Type" -> "content-type"
                 [] OTHER -> name

\* utils.dict_get_ignore_case(d, key, default), d a sequence of
\* [name, value] items in the mapping's order
dict_get_ignore_case(d, key, default) ==
    LET exact == {i \in 1 .. Len(d) : d[i].name = key}
        loose == {i \in 1 .. Len(d) : Lower(d[i].name) = Lower(key)}
    IN  IF exact # {} THEN d[CHOOSE i \in exact : TRUE].value
        ELSE IF loose # {}
        THEN d[CHOOSE i \in loose : \A j \in loose : i <= j].value
        ELSE default

chunk_size == 1024

\* the counter assigned, not incremented
add_chunk_assign(total) == chunk_size

\* the counter counting chunks, not bytes
add_chunk_one(total) == total + 1

\* line 297: total += chunk_size
add_chunk(total) == total + chunk_size

\* a header's text is a decimal numeral n or a text float() rejects; None is
\* the default of the lookup
Numeral(n) == [text |-> "num", n |-> n]
Malformed == [text |-> "bad", n |-> 0]
None == [text |-> "None", n |-> 0]

\* no get_file call has been made
NoDownload ==
    [pc |-> "idle", quiet |-> FALSE, binary |-> FALSE, debug |-> TRUE,
     headers |-> <<>>, size |-> None, body |-> 0,
     response |-> "none", file |-> "none",
     read |-> 0, written |-> 0, total |-> 0, calls |-> 0, error |-> "none"]

\* an exception caught and dropped: get_file goes on where it was
Raise_swallowed(g, exc) == [g EXCEPT !.error = exc]

\* an exception leaving get_file without the two with blocks closing anything
Raise_leaking(g, exc) == [g EXCEPT !.pc = "raised", !.error = exc]

\* an exception leaving get_file: the with blocks of lines 269 and 288 close
\* the file, if it was opened, and the response, if it was obtained
Raise(g, exc) ==
    [g EXCEPT !.pc = "raised", !.error = exc,
              !.file = IF @ = "open" THEN "closed" ELSE @,
              !.response = IF @ = "open" THEN "closed" ELSE @]

\* get_file running off its end: both with blocks are left
Return(g) ==
    [g EXCEPT !.pc = "returned",
              !.file = IF @ = "open" THEN "closed" ELSE @,
              !.response = IF @ = "open" THEN "closed" ELSE @]

\* f.write(chunk) accepting bytes on a file opened in text mode
text_write_accepted(binary) == FALSE

\* f.write(chunk), chunk being bytes, raises TypeError on a file opened 'w'
text_write_rejected(binary) == ~binary

\* ------------------------------- proxyget.py: make_proxy and make_kwargs
\* the ProxyInfo values tried: two proxies, and one whose port is no port
ProxyInfo(server, port) == [server |-> server, port |-> port]
Infos == {ProxyInfo("a", 8080), ProxyInfo("b", 8080), ProxyInfo("a", 65536)}
\* what the user may type at the getpass prompt
Passwords == {"p1", "p2"}
\* nothing can be read at the prompt: getpass raises EOFError
NoInput == "<EOF>"

\* ProxyInfo.assert_correct: the port must lie in 0 .. 65535
assert_correct(info) ==
    IF 0 <= info.port /\ info.port <= 65535 THEN "none" ELSE "ValueError"

NoProxies == [server |-> "", port |-> 0, passwd |-> ""]
\* the 'proxies' the caller passed in kwargs
GivenProxies == [server |-> "given", port |-> 0, passwd |-> "given"]

\* make_proxy(info): the check, then the prompt (debug is False), at which
\* `typed` is entered or nothing can be read; the proxies built hold the
\* server, port and password
make_proxy(info, typed) ==
    IF assert_correct(info) # "none"
    THEN [err |-> assert_correct(info), prompted |-> FALSE,
          proxies |-> NoProxies]
    ELSE IF typed = NoInput
    THEN [err |-> "EOFError", prompted |-> TRUE, proxies |-> NoProxies]
    ELSE [err |-> "none", prompted |-> TRUE,
          proxies |-> [server |-> info.server, port |-> info.port,
                       passwd |-> typed]]

\* the cache of functools.lru_cache(maxsize=None): empty
NoCache == [i \in Infos |-> NoProxies]

\* make_proxy_and_save without the lru_cache decorator
make_proxy_and_save_uncached(cache, info, typed) ==
    [cache |-> cache] @@ make_proxy(info, typed)

\* make_proxy_and_save(info): the cached result for an equal argument, else
\* make_proxy(info), whose result is stored unless it raised
make_proxy_and_save(cache, info, typed) ==
    LET r == make_proxy(info, typed)
    IN  IF cache[info] # NoProxies
        THEN [err |-> "none", prompted |-> FALSE, proxies |-> cache[info],
              cache |-> cache]
        ELSE [err |-> r.err, prompted |-> r.prompted, proxies |-> r.proxies,
              cache |-> IF r.err = "none"
                        THEN [cache EXCEPT ![info] = r.proxies] ELSE cache]

\* make_kwargs(proxy_info, nosave=nosave, **kwargs), `given` telling whether
\* kwargs holds 'proxies': lines 207-210
make_kwargs(cache, info, nosave, given, typed) ==
    IF given
    THEN [err |-> "none", prompted |-> FALSE, proxies |-> GivenProxies,
          cache |-> cache]
    ELSE IF nosave
    THEN [cache |-> cache] @@ make_proxy(info, typed)
    ELSE make_proxy_and_save(cache, info, typed)

\* clear_password_cache(): make_proxy_and_save.cache_clear()
clear_password_cache(cache) == NoCache

\* ------------------------------------------- share.py and gitclone.py
\* share.make_proxy(proxy_info): proxyget.make_proxy(proxy_info)['http'], the
\* proxy URL, which carries the password typed
share_make_proxy(info, typed) == make_proxy(info, typed)

\* share.run_cmd(cmd, name): RuntimeError unless os.system gave exit code 0
run_cmd(exit_code) == IF exit_code # 0 THEN "RuntimeError" ELSE "none"

\* the values one git configuration file holds for http.proxy, in order.
\* set_cmd, `git config --global --add http.proxy {}`: a value is added after
\* the ones there
set_cmd(values, proxy) == Append(values, proxy)

\* unset_cmd, `git config --global --unset http.proxy`: removes the value if
\* there is exactly one; with none or with several git changes nothing and
\* exits with code 5
unset_cmd(values) == IF Len(values) = 1 THEN <<>> ELSE values
unset_cmd_exit(values) == IF Len(values) = 1 THEN 0 ELSE 5

\* a value of http.proxy that was in the global configuration before main
OldProxy == [server |-> "old", port |-> 0, passwd |-> ""]

\* the exit codes tried for a command that may fail
ExitCodes == {0, 1}

\* ------------------------------------------- objects not in use in a run
\* no call of gitclone.main made: an empty global configuration, the
\* process in the directory it was started in
NoClone == [pc |-> "idle", n |-> 0, set_local |-> FALSE, email |-> FALSE,
            proxy |-> NoProxies, global |-> <<>>, atEntry |-> <<>>,
            cwd |-> "entry", cloned |-> FALSE, local |-> {},
            error |-> "none"]
CloneIdle == gc = NoClone

NoKwCall == [op |-> "none", info |-> ProxyInfo("", 0), nosave |-> FALSE,
             given |-> FALSE, prompted |-> FALSE, err |-> "none",
             proxies |-> NoProxies]
\* asked[i], entered[i]: the prompts made, and the passwords entered at
\* them, in make_proxy_and_save calls for i since the cache was last empty
NoPrompts == [i \in Infos |-> 0]
NoKwargs == [cache |-> NoCache, n |-> 0, last |-> NoKwCall, prev |-> NoKwCall,
             asked |-> NoPrompts, entered |-> NoPrompts]
KwIdle == kw = NoKwargs

NoBar == [update_rate |-> 0, precision |-> 0, length |-> 0, pcLen |-> 0,
          ecLen |-> 0, _timer |-> Timer(0, 0, 0), _cycle |-> 0]
NoBarCall == [op |-> "none", n |-> 0, frames |-> 0, err |-> "none",
              start |-> 0, fraction |-> 0, total |-> 1]

BarIdle == pbar = NoBar /\ sink = <<>> /\ bLast = NoBarCall
TimerIdle == timer = Timer(0, 0, 0) /\ tLast = NoCall /\ tPrev = NoCall

NotCalled == [called |-> FALSE, err |-> "none", whole |-> 0, cents |-> 0,
              sym |-> "", key |-> 0]
BytesIdle == wbIn = [neg |-> FALSE, ds |-> <<>>, bits |-> FALSE]
             /\ wbOut = NotCalled

NoTimeArgs == [d |-> [neg |-> FALSE, m |-> 0, e |-> 0], unit |-> "None",
               long_form |-> TRUE]
NoTimeCall == [in |-> NoTimeArgs, out |-> [called |-> FALSE] @@ NoRepr]
TimeIdle == tdIn = NoTimeArgs /\ tdOut = [called |-> FALSE] @@ NoRepr
            /\ tdPrev = NoTimeCall

\* ------------------------------------------------ a stand-alone ProgressBar
\* what a call on pbar that gave result r did, as seen from outside
BarCall(op, r, fraction, total) ==
    [op |-> op, n |-> bLast.n + 1,
     frames |-> Len(Frames(r.sink)) - Len(Frames(sink)),
     err |-> r.err, start |-> now, fraction |-> fraction, total |-> total]

\* the (fraction, total) arguments tried for print_progress: 0%, 50%, 100%
\* with and without a total, 150%, and a total of 0
ProgressArgs == {<<0, 1>>, <<1, 2>>, <<1, 1>>, <<2, 2>>, <<3, 2>>, <<1, 0>>}

\* a ProgressBar has just been constructed: any update rate, the default
\* length, a one-character progress glyph or (asserts off) the default one
BarInit ==
    /\ \E rate \in 0 .. MaxRate, pcLen \in {1, progress_char_default_len},
          t2 \in 0 .. MaxDrift :
          /\ pbar = ProgressBar(rate, length_default, pcLen, 0, t2)
          /\ now = t2
          /\ bLast = [NoBarCall EXCEPT !.op = "init"]
    /\ sink = <<>>
    /\ TimerIdle /\ BytesIdle /\ TimeIdle /\ gf = NoDownload
    /\ KwIdle /\ CloneIdle

BarTick == Tick /\ UNCHANGED <<timerVars, barVars, wbVars, tdVars, gf, kw, gc>>

\* a caller invokes pbar.print_init()
BarPrintInit ==
    /\ bLast.n < MaxCalls
    /\ \E t2 \in Later(now) :
          LET r == print_init(pbar, sink, now, t2) IN
          /\ pbar' = r.pbar
          /\ sink' = r.sink
          /\ now' = r.end
          /\ bLast' = BarCall("print_init", r, 0, 1)
    /\ UNCHANGED <<timerVars, wbVars, tdVars, gf, kw, gc>>

\* a caller invokes pbar.print_progress(fraction, total)
BarPrintProgress ==
    /\ bLast.n < MaxCalls
    /\ \E a \in ProgressArgs, t2 \in Later(now) :
          LET r == print_progress(pbar, sink, a[1], a[2], now, t2) IN
          /\ pbar' = r.pbar
          /\ sink' = r.sink
          /\ now' = r.end
          /\ bLast' = BarCall("print_progress", r, a[1], a[2])
    /\ UNCHANGED <<timerVars, wbVars, tdVars, gf, kw, gc>>

BarNext == BarTick \/ BarPrintInit \/ BarPrintProgress

SpecBar == BarInit /\ [][BarNext]_vars

\* ------------------------------------------- the spinner of a ProgressBar
MaxSpinCalls == 6   \* print_progress calls made on the bar
MaxSpinClock == 4   \* the clock stops advancing here

\* the (fraction, total) arguments tried: a bar that is not full, a full one
\* and one past full
SpinArgs == {<<1, 2>>, <<2, 2>>, <<3, 2>>}

\* a ProgressBar has just been constructed, unthrottled or with an update
\* rate of one tick
SpinInit ==
    /\ \E rate \in {0, 1} :
          pbar = ProgressBar(rate, length_default, 1, 0, 0)
    /\ now = 0
    /\ bLast = [NoBarCall EXCEPT !.op = "init"]
    /\ sink = <<>>
    /\ TimerIdle /\ BytesIdle /\ TimeIdle /\ gf = NoDownload
    /\ KwIdle /\ CloneIdle

SpinTick ==
    /\ now < MaxSpinClock
    /\ now' = now + 1
    /\ UNCHANGED <<timerVars, barVars, wbVars, tdVars, gf, kw, gc>>

\* a caller invokes pbar.print_progress(fraction, total); the clock does not
\* move during the call
SpinPrintProgress ==
    /\ bLast.n < MaxSpinCalls
    /\ \E a \in SpinArgs :
          LET r == print_progress(pbar, sink, a[1], a[2], now, now) IN
          /\ pbar' = r.pbar
          /\ sink' = r.sink
          /\ now' = r.end
          /\ bLast' = [BarCall("print_progress", r, a[1], a[2])
                          EXCEPT !.start = 0]
    /\ UNCHANGED <<timerVars, wbVars, tdVars, gf, kw, gc>>

SpinNext == SpinTick \/ SpinPrintProgress

SpecSpin == SpinInit /\ [][SpinNext]_vars

\* ------------------------------------------------------ write_bytes calls
\* some arguments for write_bytes, not yet called
BytesInit ==
    /\ wbIn \in [neg : BOOLEAN, ds : ByteCounts, bits : BOOLEAN]
    /\ wbOut = NotCalled
    /\ now = 0
    /\ TimerIdle /\ BarIdle /\ TimeIdle /\ gf = NoDownload
    /\ KwIdle /\ CloneIdle

\* the call write_bytes(num, bits=bits)
BytesCall ==
    /\ ~wbOut.called
    /\ wbOut' = [called |-> TRUE] @@ write_bytes(wbIn.neg, wbIn.ds, wbIn.bits)
    /\ UNCHANGED <<now, wbIn, timerVars, barVars, tdVars, gf, kw, gc>>

BytesNext == BytesCall

SpecBytes == BytesInit /\ [][BytesNext]_vars

\* --------------------------------------------------- time_diff_repr calls
\* exponents -DigitsBelow .. MaxExp for the durations tried
DigitsBelow == 13
MaxExp == 3
\* the mantissas tried: 0, the lower limits of the table, values between
Mantissas == {0, 1, 5, 12, 72, 119, 1728, 22896}
Durations ==
    [neg : BOOLEAN, m : Mantissas, e : -DigitsBelow .. MaxExp]
TimeArgs ==
    [d : Durations, unit : {"None", "x"}, long_form : BOOLEAN]

\* some arguments for time_diff_repr, not yet called
TimeInit ==
    /\ tdIn \in TimeArgs
    /\ tdOut = [called |-> FALSE] @@ NoRepr
    /\ tdPrev = NoTimeCall
    /\ now = 0
    /\ TimerIdle /\ BarIdle /\ BytesIdle /\ gf = NoDownload
    /\ KwIdle /\ CloneIdle

\* the call time_diff_repr(d, unit=unit, long_form=long_form)
TimeCall ==
    /\ ~tdOut.called
    /\ tdOut' = [called |-> TRUE]
                   @@ time_diff_repr(tdIn.d, tdIn.unit, tdIn.long_form)
    /\ UNCHANGED <<now, tdIn, tdPrev, timerVars, barVars, wbVars, gf, kw, gc>>

\* a second call, with another duration and no unit given
TimeAgain ==
    /\ tdOut.called /\ tdOut.err = "none" /\ tdIn.unit = "None"
    /\ tdPrev = NoTimeCall
    /\ tdPrev' = [in |-> tdIn, out |-> tdOut]
    /\ \E d \in Durations : tdIn' = [tdIn EXCEPT !.d = d]
    /\ tdOut' = [called |-> FALSE] @@ NoRepr
    /\ UNCHANGED <<now, timerVars, barVars, wbVars, gf, kw, gc>>

TimeNext == TimeCall \/ TimeAgain

SpecTime == TimeInit /\ [][TimeNext]_vars

\* ---------------------------------------------------- a stand-alone Timer
\* a Timer has just been constructed with some checktime
TimerInit ==
    /\ \E c \in 0 .. MaxRate, t2 \in 0 .. MaxDrift :
          /\ timer = Timer(c, 0, t2)
          /\ now = t2
          /\ tLast = [op |-> "init", ret |-> FALSE, elapsed |-> 0,
                      start |-> 0, end |-> t2, ref |-> t2]
    /\ tPrev = NoCall
    /\ BarIdle /\ BytesIdle /\ TimeIdle /\ gf = NoDownload
    /\ KwIdle /\ CloneIdle

TimerTick == Tick /\ UNCHANGED <<timerVars, barVars, wbVars, tdVars, gf, kw, gc>>

\* a caller invokes timer.restart()
TimerRestart ==
    \E t2 \in Later(now) :
       /\ timer' = Timer_restart(timer, now, t2)
       /\ now' = t2
       /\ tPrev' = tLast
       /\ tLast' = [op |-> "restart", ret |-> FALSE,
                    elapsed |-> toc(timer.checker, now),
                    start |-> now, end |-> t2, ref |-> timer.checker._tic]
       /\ UNCHANGED <<barVars, wbVars, tdVars, gf, kw, gc>>

\* a caller invokes timer.check()
TimerCheck ==
    \E t2 \in Later(now) :
       LET r == Timer_check(timer, now, t2) IN
       /\ timer' = r.timer
       /\ now' = IF r.ret THEN t2 ELSE now
       /\ tPrev' = tLast
       /\ tLast' = [op |-> "check", ret |-> r.ret,
                    elapsed |-> toc(timer.checker, now),
                    start |-> now, end |-> now', ref |-> timer.checker._tic]
       /\ UNCHANGED <<barVars, wbVars, tdVars, gf, kw, gc>>

TimerNext == TimerTick \/ TimerRestart \/ TimerCheck

SpecTimer == TimerInit /\ [][TimerNext]_vars

\* ----------------------------------------------------- make_kwargs calls
MaxKwCalls == 4     \* calls of make_kwargs and clear_password_cache made

KwInit ==
    /\ kw = NoKwargs
    /\ now = 0
    /\ TimerIdle /\ BarIdle /\ BytesIdle /\ TimeIdle /\ gf = NoDownload
    /\ CloneIdle

\* a caller invokes make_kwargs(info, nosave=nosave), with or without a
\* 'proxies' keyword; the user types a password if asked
KwMakeKwargs ==
    /\ kw.n < MaxKwCalls
    /\ \E info \in Infos, nosave \in BOOLEAN, given \in BOOLEAN,
          typed \in Passwords \cup {NoInput} :
          LET r == make_kwargs(kw.cache, info, nosave, given, typed)
              saving == ~given /\ ~nosave
          IN
          kw' = [cache |-> r.cache, n |-> kw.n + 1, prev |-> kw.last,
                 last |-> [op |-> "make_kwargs", info |-> info,
                           nosave |-> nosave, given |-> given,
                           prompted |-> r.prompted, err |-> r.err,
                           proxies |-> r.proxies],
                 asked |-> IF saving /\ r.prompted
                           THEN [kw.asked EXCEPT ![info] = @ + 1]
                           ELSE kw.asked,
                 entered |-> IF saving /\ r.prompted /\ r.err = "none"
                             THEN [kw.entered EXCEPT ![info] = @ + 1]
                             ELSE kw.entered]
    /\ UNCHANGED <<now, timerVars, barVars, wbVars, tdVars, gf, gc>>

\* a caller invokes clear_password_cache()
KwClear ==
    /\ kw.n < MaxKwCalls
    /\ kw' = [cache |-> clear_password_cache(kw.cache), n |-> kw.n + 1,
              prev |-> kw.last, last |-> [NoKwCall EXCEPT !.op = "clear"],
              asked |-> NoPrompts, entered |-> NoPrompts]
    /\ UNCHANGED <<now, timerVars, barVars, wbVars, tdVars, gf, gc>>

KwNext == KwMakeKwargs \/ KwClear

SpecKwargs == KwInit /\ [][KwNext]_vars

\* ------------------------------------------------- calls of gitclone.main
MaxOldValues == 2    \* http.proxy values in the global configuration at first
MaxCloneCalls == 2   \* calls of main made one after the other

notGc == <<now, timerVars, barVars, wbVars, tdVars, gf, kw>>

\* the global configuration holds up to MaxOldValues values of http.proxy
\* that the user put there
CloneInit ==
    /\ \E m \in 0 .. MaxOldValues :
          gc = [NoClone EXCEPT !.global = [i \in 1 .. m |-> OldProxy]]
    /\ now = 0
    /\ TimerIdle /\ BarIdle /\ BytesIdle /\ TimeIdle /\ gf = NoDownload
    /\ KwIdle

\* lines 33-40: main(url, dir_, set_local, email) is called; the url is
\* checked for spaces; the proxy string is built from the password typed
CloneCall ==
    /\ gc.pc \in {"idle", "done"} /\ gc.n < MaxCloneCalls
    /\ \E spaces \in BOOLEAN, set_local \in BOOLEAN, email \in BOOLEAN,
          info \in Infos, typed \in Passwords \cup {NoInput} :
          LET g0 == [gc EXCEPT !.n = @ + 1, !.set_local = set_local,
                               !.email = email, !.proxy = NoProxies,
                               !.atEntry = gc.global, !.cwd = "entry",
                               !.cloned = FALSE, !.local = {},
                               !.error = "none"]
              r  == share_make_proxy(info, typed)
          IN  gc' = IF spaces
                    THEN [g0 EXCEPT !.pc = "done", !.error = "ValueError"]
                    ELSE IF r.err # "none"
                    THEN [g0 EXCEPT !.pc = "done", !.error = r.err]
                    ELSE [g0 EXCEPT !.pc = "unset", !.proxy = r.proxies]
    /\ UNCHANGED notGc

\* line 42: os.system(unset_cmd), whose exit code is not looked at
CloneUnsetFirst ==
    /\ gc.pc = "unset"
    /\ gc' = [gc EXCEPT !.pc = "set", !.global = unset_cmd(@)]
    /\ UNCHANGED notGc

\* lines 44-45: run_cmd(set_cmd.format(proxy)); a failure goes to `finally`
CloneSetGlobal ==
    /\ gc.pc = "set"
    /\ \E exit_code \in ExitCodes :
          gc' = IF run_cmd(exit_code) # "none"
                THEN [gc EXCEPT !.pc = "finally",
                                !.error = run_cmd(exit_code)]
                ELSE [gc EXCEPT !.pc = "clone",
                                !.global = set_cmd(@, gc.proxy)]
    /\ UNCHANGED notGc

\* lines 46-48: run_cmd(clone_cmd.format(url, dir_)); then the local settings
\* if set_local or email, else `finally`
CloneClone ==
    /\ gc.pc = "clone"
    /\ \E exit_code \in ExitCodes :
          gc' = IF run_cmd(exit_code) # "none"
                THEN [gc EXCEPT !.pc = "finally",
                                !.error = run_cmd(exit_code)]
                ELSE [gc EXCEPT !.cloned = TRUE,
                                !.pc = IF gc.set_local \/ gc.email
                                       THEN "chdir" ELSE "finally"]
    /\ UNCHANGED notGc

\* lines 49-50: time.sleep(1); os.chdir(project_name), which raises when
\* the clone is not in a directory of that name
CloneChdir ==
    /\ gc.pc = "chdir"
    /\ \E found \in BOOLEAN :
          gc' = IF ~found
                THEN [gc EXCEPT !.pc = "finally",
                                !.error = "FileNotFoundError"]
                ELSE [gc EXCEPT !.cwd = "project", !.pc = "local"]
    /\ UNCHANGED notGc

\* lines 51-53: if set_local, run_cmd(set_local_cmd.format(proxy))
CloneSetLocal ==
    /\ gc.pc = "local"
    /\ \E exit_code \in ExitCodes :
          gc' = IF ~gc.set_local
                THEN [gc EXCEPT !.pc = "email"]
                ELSE IF run_cmd(exit_code) # "none"
                THEN [gc EXCEPT !.pc = "finally",
                                !.error = run_cmd(exit_code)]
                ELSE [gc EXCEPT !.pc = "email",
                                !.local = @ \cup {"http.proxy"}]
    /\ UNCHANGED notGc

\* lines 54-57: if email, run_cmd(set_local_email_cmd.format(email)); the
\* try block ends
CloneSetEmail ==
    /\ gc.pc = "email"
    /\ \E exit_code \in ExitCodes :
          gc' = IF ~gc.email
                THEN [gc EXCEPT !.pc = "finally"]
                ELSE IF run_cmd(exit_code) # "none"
                THEN [gc EXCEPT !.pc = "finally",
                                !.error = run_cmd(exit_code)]
                ELSE [gc EXCEPT !.pc = "finally",
                                !.local = @ \cup {"user.email"}]
    /\ UNCHANGED notGc

\* lines 58-61, the finally block: os.system(unset_cmd), exit code not
\* looked at, and os.chdir(cwd); main returns or the exception goes on
CloneFinally ==
    /\ gc.pc = "finally"
    /\ gc' = [gc EXCEPT !.pc = "done", !.global = unset_cmd(@),
                        !.cwd = "entry"]
    /\ UNCHANGED notGc

CloneNext ==
    \/ CloneCall \/ CloneUnsetFirst \/ CloneSetGlobal \/ CloneClone
    \/ CloneChdir \/ CloneSetLocal \/ CloneSetEmail \/ CloneFinally

SpecClone == CloneInit /\ [][CloneNext]_vars

\* ---------------------------------------------------------- a get_file call
MaxChunks == 3      \* chunks the response body may hold
\* the declared content lengths tried
SizeValues == {0, 1, 1024, 1536, 2048}
OtherHeader == [name |-> "Content-Type", value |-> Malformed]
\* the response headers tried: without a content length, and with one under
\* two spellings, numeric or not
HeaderChoices ==
    {<<OtherHeader>>} \cup
    {<<OtherHeader, [name |-> n, value |-> v]>> :
        n \in {"content-length", "Content-Length"},
        v \in {Numeral(x) : x \in SizeValues} \cup {Malformed}}

GetFileInit ==
    /\ gf = NoDownload
    /\ KwIdle /\ CloneIdle
    /\ now = 0
    /\ pbar = NoBar /\ sink = <<>> /\ bLast = NoBarCall
    /\ TimerIdle /\ BytesIdle /\ TimeIdle

notGf == <<timerVars, wbVars, tdVars, kw, gc>>

\* lines 267-286: get() answers or raises; the content length is looked up
\* and converted; the progress bar is built; the size is logged and the bar
\* initialised, or the missing length is logged
GetFileCall ==
    /\ gf.pc = "idle"
    /\ \E quiet \in BOOLEAN, binary \in BOOLEAN, debug \in BOOLEAN,
          headers \in HeaderChoices, body \in 0 .. MaxChunks,
          answered \in BOOLEAN, t2 \in Later(now) :
          LET g0   == [gf EXCEPT !.quiet = quiet, !.binary = binary,
                                 !.debug = debug, !.headers = headers,
                                 !.body = body]
              g1   == [g0 EXCEPT !.response = "open"]
              size == dict_get_ignore_case(headers, "content-length", None)
              g2   == [g1 EXCEPT !.size = size]
              pb   == ProgressBar(update_rate_default, length_default,
                                  progress_char_default_len, now, now)
              wb   == write_bytes(FALSE, ToDigits(size.n, NDigits), FALSE)
              logged == Append(sink, Written("log", now))
              r    == print_init(pb, logged, t2, t2)
          IN  IF ~answered
              THEN /\ gf' = Raise(g0, "RequestException")
                   /\ UNCHANGED <<now, pbar, sink, bLast>>
              ELSE IF size = Malformed
              THEN /\ gf' = Raise(g1, "ValueError")
                   /\ UNCHANGED <<now, pbar, sink, bLast>>
              ELSE IF ~post_init_ok(progress_char_default_len,
                                    empty_char_default_len, debug)
              THEN /\ gf' = Raise(g2, "AssertionError")
                   /\ UNCHANGED <<now, pbar, sink, bLast>>
              ELSE IF size # None /\ ~quiet
              THEN IF wb.err # "none"
                   THEN /\ gf' = Raise(g2, wb.err)
                        /\ pbar' = pb
                        /\ UNCHANGED <<now, sink, bLast>>
                   ELSE /\ gf' = [g2 EXCEPT !.pc = "open"]
                        /\ pbar' = r.pbar
                        /\ sink' = r.sink
                        /\ now' = r.end
                        /\ bLast' = BarCall("print_init", r, 0, 1)
              ELSE /\ gf' = [g2 EXCEPT !.pc = "open"]
                   /\ pbar' = pb
                   /\ sink' = IF ~quiet
                              THEN Append(sink, Written("notice", now))
                              ELSE sink
                   /\ UNCHANGED <<now, bLast>>
    /\ UNCHANGED notGf

\* line 288: open(filename, 'wb' if binary else 'w') succeeds or raises
GetFileOpen ==
    /\ gf.pc = "open"
    /\ \E ok \in BOOLEAN :
          gf' = IF ok THEN [gf EXCEPT !.pc = "iter", !.file = "open",
                                      !.total = 0]
                ELSE Raise(gf, "OSError")
    /\ UNCHANGED <<now, pbar, sink, bLast, notGf>>

\* line 291: the for statement asks iter_content for the next chunk: it
\* yields one, raises, or is exhausted
GetFileNextChunk ==
    /\ gf.pc = "iter"
    /\ \E ok \in BOOLEAN :
          gf' = IF gf.read = gf.body THEN [gf EXCEPT !.pc = "end"]
                ELSE IF ok THEN [gf EXCEPT !.pc = "write", !.read = @ + 1]
                ELSE Raise(gf, "ChunkedEncodingError")
    /\ UNCHANGED <<now, pbar, sink, bLast, notGf>>

\* lines 292-299: the chunk is written, counted and reported; bLast keeps
\* the print_progress call made
GetFileWriteChunk ==
    /\ gf.pc = "write"
    /\ \E ok \in BOOLEAN, sinkOk \in BOOLEAN, t2 \in Later(now) :
          LET g1 == [gf EXCEPT !.written = @ + 1, !.total = add_chunk(@)]
              r  == print_progress(pbar, sink, g1.total, gf.size.n, now, t2)
              call == BarCall("print_progress", r, g1.total, gf.size.n)
          IN  IF text_write_rejected(gf.binary)
              THEN /\ gf' = Raise(gf, "ModeMismatch")
                   /\ UNCHANGED <<now, pbar, sink, bLast>>
              ELSE IF ~ok
              THEN /\ gf' = Raise(gf, "OSError")
                   /\ UNCHANGED <<now, pbar, sink, bLast>>
              ELSE IF gf.size # None /\ ~gf.quiet
              THEN IF r.err # "none"
                   THEN /\ gf' = Raise([g1 EXCEPT !.calls = @ + 1], r.err)
                        /\ pbar' = r.pbar
                        /\ now' = r.end
                        /\ bLast' = call
                        /\ UNCHANGED sink
                   ELSE IF ~sinkOk /\ r.sink # sink
                   THEN /\ gf' = Raise([g1 EXCEPT !.calls = @ + 1], "OSError")
                        /\ pbar' = r.pbar
                        /\ now' = r.end
                        /\ bLast' = [call EXCEPT !.frames = 0,
                                                  !.err = "OSError"]
                        /\ UNCHANGED sink
                   ELSE /\ gf' = [g1 EXCEPT !.pc = "iter", !.calls = @ + 1]
                        /\ pbar' = r.pbar
                        /\ sink' = r.sink
                        /\ now' = r.end
                        /\ bLast' = call
              ELSE /\ gf' = [g1 EXCEPT !.pc = "iter"]
                   /\ UNCHANGED <<now, pbar, sink, bLast>>
    /\ UNCHANGED notGf

\* lines 300-301: after the loop pbar.print_end() is called if the size is
\* known and not quiet; ProgressBar has no such method
GetFileFinish ==
    /\ gf.pc = "end"
    /\ gf' = IF gf.size # None /\ ~gf.quiet
                /\ "print_end" \notin ProgressBar_methods
             THEN Raise(gf, "AttributeError")
             ELSE Return(gf)
    /\ UNCHANGED <<now, pbar, sink, bLast, notGf>>

\* time passes while the download runs
GetFileTick ==
    /\ gf.pc \in {"open", "iter", "write", "end"}
    /\ Tick
    /\ UNCHANGED <<gf, pbar, sink, bLast, notGf>>

GetFileDone == gf.pc \in {"returned", "raised"}

\* ------------------------------------------------------------------ claims

\* the last two writes to the sink are a frame showing 100.0% and a newline
C1_EndsWithFullFrame ==
    /\ Len(sink) >= 2
    /\ sink[Len(sink)].kind = "nl"
    /\ sink[Len(sink) - 1].kind = "frame"
    /\ sink[Len(sink) - 1].permille = 1000

\* C1, as stated: a download with a known content length and quiet = false
\* whose chunks were all read and written returns normally, the sink ending
\* with a 100% frame and a newline; 2048 bytes in two chunks are two writes.
C1_CompletesWithFullFrame ==
    (GetFileDone /\ gf.size # None /\ ~gf.quiet
     /\ gf.body >= 1 /\ gf.read = gf.body /\ gf.written = gf.body) =>
        /\ gf.pc = "returned"
        /\ C1_EndsWithFullFrame
        /\ (gf.size = Numeral(2048) /\ gf.body = 2) => gf.written = 2

\* C6: when get_file has returned or raised, the response, if it was
\* obtained, is closed and the destination file, if it was opened, is closed.
C6_ResourcesClosedOnExit ==
    GetFileDone =>
        /\ gf.file # "open"
        /\ gf.response # "open"
        /\ gf.error # "RequestException" => gf.response = "closed"
        /\ (gf.read > 0 \/ gf.pc = "returned") => gf.file = "closed"

\* a write failed after a chunk had been written, and both are closed
C6_Witness ==
    /\ gf.pc = "raised" /\ gf.error = "OSError"
    /\ gf.written >= 1 /\ gf.read = gf.written + 1
    /\ gf.file = "closed" /\ gf.response = "closed"

\* C10: once the destination is open in text mode and the first chunk has
\* been handed to f.write, get_file has raised the mode-mismatch error: no
\* chunk is counted, print_progress was not called, no second chunk was
\* read, and the file is closed.
C10_TextModeFailsOnFirstWrite ==
    (~gf.binary /\ gf.file # "none" /\ gf.read >= 1 /\ gf.pc # "write") =>
        /\ gf.pc = "raised"
        /\ gf.error = "ModeMismatch"
        /\ gf.written = 0 /\ gf.total = 0
        /\ gf.calls = 0 /\ Len(Frames(sink)) = 0
        /\ gf.read = 1
        /\ gf.file = "closed"

\* a text-mode download of a body of several chunks, its length known and
\* not quiet, has failed on the first write
C10_Witness ==
    /\ ~gf.binary /\ gf.body >= 2 /\ gf.size = Numeral(2048) /\ ~gf.quiet
    /\ gf.pc = "raised" /\ gf.error = "ModeMismatch"
    /\ gf.read = 1 /\ gf.file = "closed"

\* C2, as stated: every print_init call writes exactly one frame, a 0% frame,
\* and leaves the ticker's reference time at the time of the call.
C2_PrintInitAlwaysRenders ==
    bLast.op = "print_init" =>
        /\ bLast.frames = 1
        /\ sink[Len(sink)].kind = "frame"
        /\ sink[Len(sink)].permille = 0
        /\ bLast.start <= pbar._timer.checker._tic
        /\ pbar._timer.checker._tic <= now

\* C3: with update_rate T > 0, any two consecutive frames in the sink were
\* written more than T apart, whatever print_init and print_progress calls
\* were made and whenever.
C3_FramesMoreThanRateApart ==
    pbar.update_rate > 0 =>
        \A i \in 1 .. Len(Frames(sink)) - 1 :
            Frames(sink)[i + 1].at - Frames(sink)[i].at > pbar.update_rate

\* a print_init call rendered the second or a later frame of a throttled bar
C3_Witness ==
    /\ pbar.update_rate > 0
    /\ bLast.op = "print_init"
    /\ bLast.frames = 1
    /\ Len(Frames(sink)) >= 2

\* C4, as stated: with interval 0 every check() returns true.
C4_ZeroIntervalAlwaysFires ==
    (timer.checktime = 0 /\ tLast.op = "check") => tLast.ret

\* C4, amended: with interval 0, check() returns true exactly when the time
\* elapsed since the reference timestamp is strictly positive; at zero
\* elapsed time it returns false.
C4_ZeroIntervalFiresIffTimePassed ==
    (timer.checktime = 0 /\ tLast.op = "check") =>
        (tLast.ret <=> tLast.elapsed > 0)

\* a check() of an interval-0 timer fired, some time after a restart()
C4_Witness ==
    /\ timer.checktime = 0
    /\ tLast.op = "check" /\ tLast.ret /\ tLast.elapsed > 0
    /\ tPrev.op = "restart"

\* a check() entered at the moment the previous call, a check() that
\* returned true, came back
ImmediatelyAfterFiring ==
    /\ tLast.op = "check"
    /\ tPrev.op = "check" /\ tPrev.ret
    /\ tLast.start = tPrev.end

\* C5, as stated: with interval T > 0, a check() right after a check() that
\* returned true returns false, and a check() made once at least T has
\* elapsed since the reference timestamp returns true.
C5_FiresAfterAtLeastInterval ==
    (timer.checktime > 0 /\ tLast.op = "check") =>
        /\ ImmediatelyAfterFiring => ~tLast.ret
        /\ tLast.elapsed >= timer.checktime => tLast.ret

\* C5, amended: with interval T > 0, a check() right after a check() that
\* returned true returns false; a check() made once strictly more than T has
\* elapsed returns true; after exactly T it returns false.
C5_FiresAfterMoreThanInterval ==
    (timer.checktime > 0 /\ tLast.op = "check") =>
        /\ ImmediatelyAfterFiring => ~tLast.ret
        /\ tLast.elapsed > timer.checktime => tLast.ret
        /\ tLast.elapsed = timer.checktime => ~tLast.ret

\* true then false in immediate succession, on a timer with T > 0
C5_Witness ==
    /\ timer.checktime > 0
    /\ ImmediatelyAfterFiring
    /\ ~tLast.ret

\* the prefix the claim gives a count: '' below 1024, k, M, G by range,
\* T from 1024^4 on (as the exponent of its divisor)
C7_Prefix(ds) ==
    IF \E i \in 5 .. Len(ds) : ds[i] # 0 THEN 4
    ELSE IF ds[4] # 0 THEN 3
    ELSE IF ds[3] # 0 THEN 2
    ELSE IF ds[2] # 0 THEN 1
    ELSE 0

\* C7, as stated: for every count n >= 0 write_bytes(n) returns a string whose
\* prefix is the one of n's range, the value being n over the prefix's
\* divisor (1 for no prefix); 1536 gives "1.50 kB".
C7_WriteBytesReturnsPrefixed ==
    (wbOut.called /\ ~wbIn.neg /\ ~wbIn.bits) =>
        /\ wbOut.err = "none"
        /\ wbOut.sym = d_sym(C7_Prefix(wbIn.ds)) \o "B"
        /\ C7_Prefix(wbIn.ds) = 0 =>
              wbOut.whole = wbIn.ds[1] /\ wbOut.cents = 0
        /\ C7_Prefix(wbIn.ds) > 0 =>
              /\ wbOut.whole = Scaled(wbIn.ds, C7_Prefix(wbIn.ds)).whole
              /\ wbOut.cents = Scaled(wbIn.ds, C7_Prefix(wbIn.ds)).cents
        /\ wbIn.ds = ToDigits(1536, NDigits) =>
              wbOut.whole = 1 /\ wbOut.cents = 50 /\ wbOut.sym = "kB"

\* what does hold: from 1024 bytes on the claim's prefix and value are given
C7_HoldsFrom1024 ==
    (wbOut.called /\ ~wbIn.neg /\ ~wbIn.bits /\ C7_Prefix(wbIn.ds) > 0) =>
        /\ wbOut.err = "none"
        /\ wbOut.sym = d_sym(C7_Prefix(wbIn.ds)) \o "B"
        /\ wbOut.key = C7_Prefix(wbIn.ds)
        /\ wbIn.ds = ToDigits(1536, NDigits) =>
              wbOut.whole = 1 /\ wbOut.cents = 50 /\ wbOut.sym = "kB"

\* write_bytes(1536) was called and gave "1.50 kB"
C7_Witness1536 ==
    /\ wbOut.called /\ ~wbIn.neg /\ ~wbIn.bits
    /\ wbIn.ds = ToDigits(1536, NDigits)
    /\ wbOut = [called |-> TRUE, err |-> "none", whole |-> 1, cents |-> 50,
                sym |-> "kB", key |-> 1]

\* the call time_diff_repr(0.0000005): no unit given, long form, 1 digit
C8_Called ==
    /\ tdOut.called
    /\ tdIn = [d |-> [neg |-> FALSE, m |-> 5, e |-> -7], unit |-> "None",
               long_form |-> TRUE]

\* C8, as stated: 0.0000005 s is rendered as "500.0 nanoseconds".
C8_RendersNanoseconds ==
    C8_Called =>
        /\ tdOut.err = "none" /\ tdOut.unit = "ns" /\ tdOut.fmt = "f"
        /\ tdOut.tenths = 5000 /\ tdOut.word = "nanoseconds"

\* C8, amended: 0.0000005 s is rendered in the microsecond unit, as
\* "0.5 microseconds".
C8_RendersMicroseconds ==
    C8_Called =>
        /\ tdOut.err = "none" /\ tdOut.unit = "us" /\ tdOut.fmt = "f"
        /\ tdOut.tenths = 5 /\ tdOut.word = "microseconds"

\* time_diff_repr(0.0000005) has returned
C8_Witness == C8_Called /\ tdOut.unit = "us" /\ tdOut.tenths = 5

\* |d| of a call's duration argument
C9_Abs(args) == Dec(args.d.m, args.d.e)

\* how large the unit a result is rendered in is: its place in the table;
\* the scientific notation 'e' is rendered in seconds (lines 143-145)
C9_Rank(out) == UnitIndex(IF out.unit = "e" THEN "s" ELSE out.unit)

\* the unit chosen is the largest of the table whose lower limit is <= |d|;
\* below every limit it is scientific seconds for d != 0, nanoseconds for 0
C9_UnitByThreshold ==
    (tdOut.called /\ tdIn.unit = "None") =>
        LET diff == C9_Abs(tdIn)
            reached == {i \in 1 .. Len(time_units) :
                           DecGeq(diff, time_units[i].lower_limit)}
        IN  /\ tdOut.err = "none"
            /\ \A i \in reached :
                  (\A j \in reached : j <= i) => tdOut.unit = time_units[i].key
            /\ (reached = {} /\ diff.m # 0) =>
                  tdOut.unit = "e" /\ tdOut.fmt = "e"
                  /\ tdOut.word = (IF tdIn.long_form THEN "seconds" ELSE "s")
            /\ (reached = {} /\ diff.m = 0) =>
                  tdOut.unit = "ns" /\ tdOut.fmt = "f"

\* two calls with no unit given have returned, the second for a duration at
\* least as long as the first
C9_TwoCallsGrowing ==
    /\ tdOut.called /\ tdIn.unit = "None"
    /\ tdPrev.out.called
    /\ DecGeq(C9_Abs(tdIn), C9_Abs(tdPrev.in))

\* C9, as stated: the unit is chosen by the thresholds, and it never gets
\* smaller when |d| grows.
C9_UnitNeverShrinks ==
    /\ C9_UnitByThreshold
    /\ C9_TwoCallsGrowing => C9_Rank(tdPrev.out) <= C9_Rank(tdOut)

\* C9, amended: the unit is chosen by the thresholds, and it never gets
\* smaller when |d| grows from a duration of at least the smallest lower
\* limit, 1e-10 s.
C9_UnitNeverShrinksFromSmallestLimit ==
    /\ C9_UnitByThreshold
    /\ (C9_TwoCallsGrowing
        /\ DecGeq(C9_Abs(tdPrev.in), time_units[1].lower_limit)) =>
           C9_Rank(tdPrev.out) <= C9_Rank(tdOut)

\* a duration on a lower limit (7200 s) got that unit, after a shorter one
\* that got a smaller unit
C9_Witness ==
    /\ C9_TwoCallsGrowing
    /\ DecGeq(C9_Abs(tdPrev.in), time_units[1].lower_limit)
    /\ C9_Abs(tdIn) = Dec(72, 2) /\ tdOut.unit = "h"
    /\ tdPrev.out.unit = "m"

\* the response of the call carries no content-length header, in any case
C11_NoLength ==
    /\ gf.pc # "idle" /\ gf.response # "none"
    /\ \A i \in 1 .. Len(gf.headers) :
           Lower(gf.headers[i].name) # "content-length"

\* the notices logged so far
C11_Notices == SelectSeq(sink, LAMBDA w : w.kind = "notice")

\* the notice was logged once, nothing was rendered, no method of the bar
\* was called and the final render was not attempted
C11_OneNoticeNoRender ==
    /\ Len(C11_Notices) = 1
    /\ sink[1].kind = "notice"
    /\ Len(Frames(sink)) = 0
    /\ bLast = NoBarCall /\ gf.calls = 0
    /\ gf.error # "AttributeError"

\* C11, as stated: in a download whose response has no content-length header
\* and quiet = false, the notice is logged exactly once, before any chunk is
\* written, and print_init, print_progress and the final render are never
\* invoked.
C11_NoticeOnceNoRender ==
    (C11_NoLength /\ ~gf.quiet) => C11_OneNoticeNoRender

\* what does hold: the same when the interpreter skips assert statements
C11_HoldsWithoutAsserts ==
    (C11_NoLength /\ ~gf.quiet /\ ~gf.debug) =>
        C11_OneNoticeNoRender

\* the failures of operations get_file performs whether quiet or not: the
\* request, float(size), ProgressBar(), open, reading and writing a chunk
C12_SharedFailures ==
    {"RequestException", "ValueError", "AssertionError", "OSError",
     "ChunkedEncodingError", "ModeMismatch"}

\* C12, as stated: when quiet, nothing is written to the sink; and the chunks
\* written are the same quiet or not: unless an operation both share fails,
\* every chunk of the body is written, as the quiet download writes it.
C12_QuietSilentSameChunks ==
    /\ gf.quiet => (sink = <<>> /\ bLast = NoBarCall)
    /\ (GetFileDone /\ gf.error \notin C12_SharedFailures) =>
           gf.written = gf.body

\* what does hold: a quiet download writes nothing to the sink, calls no
\* method of the bar, and writes the whole body unless an operation fails
C12_QuietWritesNothing ==
    gf.quiet =>
       /\ sink = <<>> /\ bLast = NoBarCall
       /\ (GetFileDone /\ gf.error \notin C12_SharedFailures) =>
              (gf.pc = "returned" /\ gf.written = gf.body)

\* the last two calls were make_kwargs calls for the same proxy_info without
\* a 'proxies' keyword, and at the first a password was entered
C13_TwoCallsSameInfo ==
    /\ kw.prev.op = "make_kwargs" /\ ~kw.prev.given /\ kw.prev.prompted
    /\ kw.prev.err = "none"
    /\ kw.last.op = "make_kwargs" /\ ~kw.last.given
    /\ kw.last.info = kw.prev.info

\* C13, as stated: the password entered in a call with nosave = True is
\* saved: the next call with the same proxy_info, no clear_password_cache()
\* between them, does not prompt.
C13_NosaveSavesPassword ==
    (C13_TwoCallsSameInfo /\ kw.prev.nosave) => ~kw.last.prompted

\* what does hold: a call with nosave = True prompts whenever the proxy_info
\* is valid and leaves the cache as it was; the password entered with
\* nosave = False is the one saved
C13_NosaveTrueSavesNothing ==
    /\ (kw.last.op = "make_kwargs" /\ ~kw.last.given /\ kw.last.nosave) =>
           (kw.last.prompted <=> assert_correct(kw.last.info) = "none")
    /\ (C13_TwoCallsSameInfo /\ ~kw.prev.nosave /\ ~kw.last.nosave) =>
           (~kw.last.prompted /\ kw.last.proxies = kw.prev.proxies)

\* C14: check() returns true exactly when the time elapsed since the
\* reference timestamp is strictly greater than the interval, and then the
\* reference timestamp is the time at which the call ended; when it returns
\* false the reference timestamp is the one before the call, so that a check
\* repeated within the interval returns false again.
C14_CheckFiresIffElapsedExceeds ==
    tLast.op = "check" =>
        /\ tLast.ret <=> (tLast.start - tLast.ref > timer.checktime)
        /\ tLast.elapsed = tLast.start - tLast.ref
        /\ tLast.ret => timer.checker._tic = tLast.end
        /\ ~tLast.ret =>
              /\ timer.checker._tic = tLast.ref
              /\ tLast.end = tLast.start
              /\ ~Timer_check(timer, tLast.end, tLast.end).ret

\* a check() returned false, and after a wait the next check() returned
\* true and moved the reference timestamp forward
C14_Witness ==
    /\ timer.checktime > 0
    /\ tPrev.op = "check" /\ ~tPrev.ret
    /\ tLast.op = "check" /\ tLast.ret
    /\ timer.checker._tic > tLast.ref

\* the ticker of the bar rejects a call made now: it has an interval, and
\* no more than the interval has elapsed since its reference timestamp
C15_TickerRejects ==
    /\ pbar._timer.checktime # 0
    /\ now - pbar._timer.checker._tic <= pbar._timer.checktime

\* C15: a print_progress call the ticker rejects writes nothing to the sink,
\* leaves the spinner phase and the ticker's reference timestamp as they
\* were and raises nothing, whatever fraction and total are.
C15_RejectedCallIsNoOp ==
    [][(bLast'.n = bLast.n + 1 /\ bLast'.op = "print_progress"
        /\ C15_TickerRejects) =>
           /\ sink' = sink
           /\ pbar' = pbar
           /\ bLast'.err = "none" /\ bLast'.frames = 0]_vars

\* a call with fraction = 1 was rejected, after a frame had been rendered
C15_Witness ==
    /\ pbar.update_rate > 0
    /\ bLast.op = "print_progress" /\ bLast.fraction = bLast.total
    /\ bLast.frames = 0 /\ bLast.err = "none"
    /\ Len(Frames(sink)) >= 1
    /\ sink[Len(sink)].kind = "frame"

\* the counter is 1024 times the chunks written, print_progress was called
\* for no more chunks than were written, the last call reported the count of
\* the chunks written until then, and no frame shows more than was written
C16_Counted ==
    /\ gf.total = 1024 * gf.written
    /\ gf.written <= gf.read
    /\ gf.calls <= gf.written
    /\ bLast.op = "print_progress" =>
          (bLast.fraction = 1024 * gf.calls /\ bLast.total = gf.size.n)
    /\ \A i \in 1 .. Len(sink) :
          sink[i].kind = "frame" =>
             sink[i].filled * gf.size.n <= length_default * gf.total

C17_KnownSizeStream ==
    /\ gf.pc # "idle" /\ gf.response # "none"
    /\ gf.size # None /\ gf.size # Malformed
    /\ gf.body = (gf.size.n + 1023) \div 1024

\* C17: in such a download the counter is <= S after every write but the
\* final one and lies in S .. S + 1023 after the final one; it exceeds S
\* only after the final write of a size that is no multiple of 1024, and the
\* fraction then passed to print_progress is greater than 1.
C17_OvershootOnlyAtEnd ==
    C17_KnownSizeStream =>
        /\ gf.written < gf.body => gf.total <= gf.size.n
        /\ gf.written = gf.body =>
              (gf.size.n <= gf.total /\ gf.total < gf.size.n + 1024)
        /\ gf.total > gf.size.n <=>
              (gf.size.n % 1024 # 0 /\ gf.written = gf.body)
        /\ (gf.total > gf.size.n /\ gf.calls = gf.written) =>
              /\ bLast.op = "print_progress"
              /\ bLast.fraction > bLast.total
              /\ bLast.frames = 1 =>
                    sink[Len(sink)].permille > 1000

\* 1536 bytes came in two chunks; the second write took the counter to 2048
\* and the frame rendered for it shows more than 100%
C17_Witness ==
    /\ C17_KnownSizeStream /\ gf.size = Numeral(1536)
    /\ gf.written = 2 /\ gf.total = 2048
    /\ bLast.fraction = 2048 /\ bLast.total = 1536 /\ bLast.frames = 1
    /\ sink[Len(sink)].permille = 1333

\* the I/O errors of the chunk loop: iter_content raising, f.write raising
C18_IOErrors == {"ChunkedEncodingError", "OSError"}

\* an I/O error was raised once the destination was open
C18_Failed == gf.error \in C18_IOErrors /\ gf.file # "none"

\* C18: the step in which reading or writing a chunk fails leaves get_file
\* with that error, the chunk neither counted nor reported; and once an I/O
\* error was raised in the loop nothing more happens: no chunk is read or
\* written, nothing is retried, no frame is rendered.
C18_AbortsAtFailedChunk ==
    [][/\ (gf.pc \in {"iter", "write"} /\ gf'.error \in C18_IOErrors
           /\ gf'.written = gf.written) =>
              /\ gf'.pc = "raised"
              /\ gf'.error = (IF gf.pc = "iter" THEN "ChunkedEncodingError"
                                               ELSE "OSError")
              /\ gf'.read = gf.read /\ gf'.total = gf.total
              /\ gf'.calls = gf.calls
              /\ sink' = sink /\ bLast' = bLast
       /\ C18_Failed =>
              (gf' = gf /\ sink' = sink /\ pbar' = pbar /\ bLast' = bLast)
      ]_vars

\* reading the second chunk failed after the first had been written and
\* reported: the download stopped there
C18_Witness ==
    /\ gf.pc = "raised" /\ gf.error = "ChunkedEncodingError"
    /\ gf.body >= 2 /\ gf.read = 1 /\ gf.written = 1 /\ gf.calls = 1
    /\ gf.file = "closed"

\* the frames in the sink whose bar is not full (filled_length differs from
\* length: a bar past full counts as not full, as in line 116)
C19_NotFull ==
    SelectSeq(sink, LAMBDA w : w.kind = "frame" /\ w.filled # pbar.length)

C20_NewlineIffFractionOne ==
    (bLast.op = "print_progress" /\ bLast.frames = 1) =>
        /\ bLast.fraction = bLast.total <=> sink[Len(sink)].kind = "nl"
        /\ sink[Len(sink)].kind = "nl" =>
              (Len(sink) >= 2 /\ sink[Len(sink) - 1].kind = "frame"
               /\ sink[Len(sink) - 1].permille = 1000)
        /\ bLast.fraction # bLast.total =>
              (sink[Len(sink)].kind = "frame"
               /\ sink[Len(sink)].permille # 1000)

\* a frame past 100% was rendered and left the line open, after a frame at
\* 100% that ended its line
C20_Witness ==
    /\ bLast.op = "print_progress" /\ bLast.frames = 1
    /\ bLast.fraction > bLast.total
    /\ sink[Len(sink)].kind = "frame" /\ sink[Len(sink)].permille = 1500
    /\ \E i \in 1 .. Len(sink) : sink[i].kind = "nl"

\* the last call went through make_proxy_and_save: make_kwargs with
\* nosave = False and no 'proxies' keyword
C21_Saving ==
    kw.last.op = "make_kwargs" /\ ~kw.last.given /\ ~kw.last.nosave

\* C21, as stated: between two clear_password_cache() calls the password for
\* a ProxyInfo is asked at most once; a call for a ProxyInfo not asked for
\* since the clear prompts, and a call that does not prompt returns the
\* stored proxies.
C21_AskedAtMostOnce ==
    /\ \A i \in Infos : kw.asked[i] <= 1
    /\ C21_Saving =>
          /\ kw.asked[kw.last.info] = 1
          /\ ~kw.last.prompted =>
                /\ kw.last.err = "none"
                /\ kw.last.proxies # NoProxies
                /\ kw.last.proxies = kw.cache[kw.last.info]

\* the passwords entered for the ProxyInfo of the last call before that call
C21_EnteredBefore ==
    kw.entered[kw.last.info]
       - (IF kw.last.prompted /\ kw.last.err = "none" THEN 1 ELSE 0)

\* C21, amended: between two clear_password_cache() calls a password is
\* entered at most once for a ProxyInfo; once it was entered a call with an
\* equal ProxyInfo returns the stored proxies without prompting; a call for
\* which none was entered prompts if the ProxyInfo passes assert_correct and
\* raises without prompting if not; a prompt that raised stores nothing.
C21_EnteredAtMostOnce ==
    /\ \A i \in Infos : kw.entered[i] <= 1
    /\ C21_Saving =>
          /\ kw.last.prompted <=>
                (C21_EnteredBefore = 0
                 /\ assert_correct(kw.last.info) = "none")
          /\ C21_EnteredBefore = 1 =>
                /\ kw.last.err = "none"
                /\ kw.last.proxies # NoProxies
                /\ kw.last.proxies = kw.cache[kw.last.info]
          /\ (C21_EnteredBefore = 1 /\ kw.prev.op = "make_kwargs"
              /\ kw.prev.info = kw.last.info /\ kw.prev.err = "none"
              /\ ~kw.prev.given /\ ~kw.prev.nosave) =>
                kw.last.proxies = kw.prev.proxies
          /\ assert_correct(kw.last.info) # "none" =>
                kw.last.err = assert_correct(kw.last.info)
          /\ kw.last.err # "none" => kw.entered[kw.last.info] = 0
    /\ (kw.last.op = "clear" \/ kw.n = 0) =>
          \A i \in Infos : kw.entered[i] = 0 /\ kw.cache[i] = NoProxies

\* a password was entered, the next call with the same ProxyInfo returned
\* the same proxies without prompting
C21_Witness ==
    /\ C21_Saving /\ ~kw.last.prompted /\ kw.last.err = "none"
    /\ kw.prev.op = "make_kwargs" /\ ~kw.prev.given /\ ~kw.prev.nosave
    /\ kw.prev.prompted /\ kw.prev.err = "none"
    /\ kw.prev.info = kw.last.info
    /\ kw.last.proxies = kw.prev.proxies
    /\ kw.n = 4

\* get_file has reached line 280: the request was answered and the content
\* length, if any, was converted
C22_ReachedConstruction ==
    /\ gf.pc # "idle" /\ gf.response # "none"
    /\ gf.error # "ValueError"

\* C22, as stated: a ProgressBar constructed with all default field values,
\* as get_file constructs it, passes the check that the progress glyph and
\* the empty glyph are one character each: get_file never fails with the
\* AssertionError of that check.
C22_DefaultBarConstructs ==
    C22_ReachedConstruction =>
        /\ post_init_ok(progress_char_default_len, empty_char_default_len,
                        gf.debug)
        /\ gf.error # "AssertionError"

\* what does hold: the default bar is constructed exactly when the
\* interpreter skips assert statements
C22_ConstructsOnlyWithoutAsserts ==
    C22_ReachedConstruction => (gf.error = "AssertionError" <=> gf.debug)

\* the last call was print_progress with a normalized fraction in [0, 1] and
\* it rendered a frame
C23_RenderedInRange ==
    /\ bLast.op = "print_progress" /\ bLast.frames = 1
    /\ bLast.total > 0
    /\ 0 <= bLast.fraction /\ bLast.fraction <= bLast.total

\* the frame the last call wrote (a newline may follow it)
C23_LastFrame == Frames(sink)[Len(Frames(sink))]

\* C23: every frame rendered by print_progress for a normalized fraction in
\* [0, 1] has a bar of exactly `length` cells: floor(fraction * length)
\* filled glyphs, then one spinner glyph and length - filled - 1 empty glyphs
\* when the bar is not full, or no spinner and no empty glyph when it is
\* full; with one-character glyphs the bar is `length` characters wide.
C23_BarHasLengthCells ==
    C23_RenderedInRange =>
        LET f == C23_LastFrame
            n == (bLast.fraction * pbar.length) \div bLast.total
        IN  /\ f.filled = n
            /\ n # pbar.length =>
                  (f.load \in 0 .. cycle_len - 1
                   /\ f.empty = pbar.length - n - 1)
            /\ n = pbar.length => (f.load = -1 /\ f.empty = 0)
            /\ f.filled + (IF f.load = -1 THEN 0 ELSE 1) + f.empty
                  = pbar.length
            /\ (pbar.pcLen = 1 /\ pbar.ecLen = 1) => f.cells = pbar.length

\* a full frame was rendered after a frame that was not full and not empty
C23_Witness ==
    /\ C23_RenderedInRange
    /\ C23_LastFrame.filled = pbar.length /\ C23_LastFrame.load = -1
    /\ pbar.pcLen = 1
    /\ \E i \in 1 .. Len(sink) :
          /\ sink[i].kind = "frame"
          /\ sink[i].filled > 0 /\ sink[i].filled < pbar.length
          /\ sink[i].load # -1
          /\ sink[i].empty = pbar.length - sink[i].filled - 1

\* a call of main has exited, by return or by exception, after it built the
\* proxy string
C24_Exited == gc.pc = "done" /\ gc.proxy # NoProxies

\* the global configuration holds a value of http.proxy with a password
C24_PasswordInGlobal ==
    \E i \in 1 .. Len(gc.global) : gc.global[i].passwd # ""

\* C24, as stated: once the proxy string has been built, every exit path of
\* gitclone.main ends with the working directory restored to the one at
\* entry and with the global http.proxy unset after it was last set: no
\* proxy URL carrying the password is left in the global git configuration.
C24_ProxyNeverLeftInGlobal ==
    C24_Exited => (gc.cwd = "entry" /\ ~C24_PasswordInGlobal)

\* what does hold: the working directory is restored on every exit path, and
\* the global http.proxy is left unset when it had at most one value at
\* entry
C24_UnsetFromAtMostOneValue ==
    C24_Exited =>
        /\ gc.cwd = "entry"
        /\ Len(gc.atEntry) <= 1 => gc.global = <<>>

\* with several values at entry both unset commands exit with code 5: the
\* values at entry stay and the proxy URL stays after them if it was set
C24_LeftAmongSeveralValues ==
    (C24_Exited /\ Len(gc.atEntry) >= 2) =>
        /\ unset_cmd_exit(gc.global) = 5
        /\ \/ gc.global = gc.atEntry
           \/ gc.global = set_cmd(gc.atEntry, gc.proxy)

Init == GetFileInit
Next ==
    \/ GetFileCall
    \/ GetFileOpen
    \/ GetFileNextChunk
    \/ GetFileWriteChunk
    \/ GetFileFinish
    \/ GetFileTick
Spec == Init /\ [][Next]_vars
====
